---- MODULE Spec2Model ----
(***************************************************************************)
(* Model of src/src/index.ts: one run of                                   *)
(*   withApi(endpoint, main).catch(e => console.error(e))                  *)
(* with main calling calculateTokenInfo (the paged account walk and fold)  *)
(* and unbonding (the staking-ledger scan).                                *)
(*                                                                         *)
(* The node's storage is an input: accountTable is system.account as of    *)
(* the bound block, ledgerTable is staking.ledger.  Every await of the     *)
(* program is a step that either settles with a value or rejects.          *)
(* trace records, in program order, what the run does that can be seen     *)
(* from outside: requests sent, responses received, entries folded,        *)
(* console lines, the disconnect and the settling of the promises.         *)
(***************************************************************************)
EXTENDS Integers, Sequences, FiniteSets, TLC

\* ---------------------------------------------------------------- bounds
\* Largest number of entries of the account table.
MaxAccounts == 2
\* Page sizes 1..MaxPageSize stand for the pageSize of fetchAccounts.
MaxPageSize == 2
\* Width in bits of the chain's Balance type (u128 on the chain).
BalanceBits == 2
\* Largest number of entries of the staking-ledger table.
MaxLedgers == 2
\* Largest number of unlocking chunks of one ledger.
MaxChunks == 2

\* ------------------------------------------------------ program constants
\* count % 10000 === 0 guards the progress line.
ProgressEvery == 10000

\* ------------------------------------------------------------------ data
\* Largest value a Balance read from storage can have.
MaxBalance == 2^BalanceBits - 1

\* The balances the tables are filled with: the two ends of Balance's range.
BalanceValues == {0, MaxBalance}

\* An optional value is a sequence of length 0 (absent) or 1.
NoKey == <<>>

\* [accountId, {data: {free, feeFrozen, miscFrozen, reserved}}]; the i-th
\* entry of the table has key i (the storage layer's order).
AccountData == [free : BalanceValues, feeFrozen : BalanceValues,
                miscFrozen : BalanceValues, reserved : BalanceValues]

RECURSIVE AccountTablesOfLen(_)
AccountTablesOfLen(n) ==
    IF n = 0 THEN { <<>> }
    ELSE { Append(t, [key |-> n, data |-> d]) :
             t \in AccountTablesOfLen(n - 1), d \in AccountData }

AccountTables == UNION { AccountTablesOfLen(n) : n \in 0..MaxAccounts }

\* Option<StakingLedger>: isSome = FALSE is None.
RECURSIVE ChunkSeqsOfLen(_)
ChunkSeqsOfLen(n) ==
    IF n = 0 THEN { <<>> }
    ELSE { Append(s, v) : s \in ChunkSeqsOfLen(n - 1), v \in BalanceValues }

ChunkSeqs == UNION { ChunkSeqsOfLen(n) : n \in 0..MaxChunks }

LedgerNone == [isSome |-> FALSE, unlocking |-> <<>>]

LedgerValues == { [isSome |-> TRUE, unlocking |-> s] : s \in ChunkSeqs }
                   \cup { LedgerNone }

RECURSIVE LedgerTablesOfLen(_)
LedgerTablesOfLen(n) ==
    IF n = 0 THEN { <<>> }
    ELSE { Append(t, l) : t \in LedgerTablesOfLen(n - 1), l \in LedgerValues }

LedgerTables == UNION { LedgerTablesOfLen(n) : n \in 0..MaxLedgers }

\* The ledger tables of the account-walk specification, and the account
\* tables of the ledger-scan specification: a few fixed ones.
SomeLedger(s) == [isSome |-> TRUE, unlocking |-> s]

SampleLedgerTables ==
    { << SomeLedger(<<MaxBalance, MaxBalance>>), SomeLedger(<<>>) >>,
      << SomeLedger(<<MaxBalance>>), LedgerNone >> }

SampleAccountTables ==
    { <<>>,
      << [key |-> 1, data |-> [free |-> MaxBalance, feeFrozen |-> MaxBalance,
                               miscFrozen |-> 0, reserved |-> MaxBalance]],
         [key |-> 2, data |-> [free |-> MaxBalance, feeFrozen |-> 0,
                               miscFrozen |-> 0, reserved |-> 0]] >> }

\* ----------------------------------------------------------------- state
VARIABLES
    accountTable,     \* system.account at the bound block
    ledgerTable,      \* staking.ledger at the bound block
    pageSize,         \* pageSize of entriesPaged
    pc,               \* where the run is
    accounts,         \* calculateTokenInfo: accounts
    newAccounts,      \* calculateTokenInfo: newAccounts
    next,             \* calculateTokenInfo: next (absent before the loop)
    idx,              \* position of the for-of loop in newAccounts
    runningTotal,     \* calculateTokenInfo: runningTotal
    runningLockedUp,  \* calculateTokenInfo: runningLockedUp
    runningReserved,  \* calculateTokenInfo: runningReserved
    count,            \* calculateTokenInfo: count
    result,           \* what calculateTokenInfo returned (optional)
    fOutcome,         \* how main(api) settled
    apiOutcome,       \* how withApi(...) settled
    exitCode,         \* the process's exit status (optional)
    trace             \* what the run did, in order

vars == << accountTable, ledgerTable, pageSize, pc, accounts, newAccounts,
           next, idx, runningTotal, runningLockedUp, runningReserved, count,
           result, fOutcome, apiOutcome, exitCode, trace >>

inputs == << accountTable, ledgerTable, pageSize >>

locals == << accounts, newAccounts, next, idx, runningTotal, runningLockedUp,
             runningReserved, count, result >>

Pending == [state |-> "pending", err |-> ""]
Fulfilled == [state |-> "fulfilled", err |-> ""]
Rejected(e) == [state |-> "rejected", err |-> e]

Event(ev, keys, err) == [ev |-> ev, keys |-> keys, err |-> err]

\* -------------------------------------------------------- pure functions
KeysOf(page) == [i \in 1..Len(page) |-> page[i].key]

\* api.query.system.account.entriesPaged({pageSize, args: [], startKey}):
\* the (at most pageSize) entries that follow startKey in the table's order.
EntriesPaged(table, size, startKey) ==
    LET after == SelectSeq(table,
                     LAMBDA e : startKey = NoKey \/ e.key > startKey[1])
    IN  SubSeq(after, 1, IF Len(after) < size THEN Len(after) ELSE size)

\* max as a bug would have it: both frozen fields are counted.
maxAsSum(a, b) == a + b

\* max(a, b)
max(a, b) == IF a > b THEN a ELSE b

\* + as a fixed-width unsigned type would have it: wraps at 2^BalanceBits.
WrappingAdd(a, b) == (a + b) % (2^BalanceBits)

\* bigint +: exact, whatever the size of the operands.
BigIntAdd(a, b) == a + b

\* The cursor as a bug would have it: the key of the page's first entry.
FirstKey(page) == << page[1].key >>

\* accounts[accounts.length - 1][0]
LastKey(page) == << page[Len(page)].key >>

\* The inner reduce as a bug would have it: the chunk replaces the sum.
RECURSIVE ReduceUnlockingLast(_, _)
ReduceUnlockingLast(unl, chunks) ==
    IF chunks = <<>> THEN unl
    ELSE ReduceUnlockingLast(Head(chunks), Tail(chunks))

\* ledger.unwrap().unlocking.reduce((unl, c) => unl + c.value.toBigInt(), 0n)
RECURSIVE ReduceUnlocking(_, _)
ReduceUnlocking(unl, chunks) ==
    IF chunks = <<>> THEN unl
    ELSE ReduceUnlocking(BigIntAdd(unl, Head(chunks)), Tail(chunks))

\* ledgers.reduce((acc, [_, ledger]) => acc + <inner reduce>, 0n); only
\* called on tables whose entries are all Some.
RECURSIVE ReduceLedgers(_, _)
ReduceLedgers(acc, ledgers) ==
    IF ledgers = <<>> THEN acc
    ELSE ReduceLedgers(
             BigIntAdd(acc, ReduceUnlocking(0, Head(ledgers).unlocking)),
             Tail(ledgers))

\* Option.unwrap() throws on None: the reduce throws at the first None.
UnwrapThrows(ledgers) == \E i \in 1..Len(ledgers) : ~ledgers[i].isSome

\* Node's exit status once nothing is left to run: 1 for a rejection nobody
\* handled, else process.exitCode, which the program never sets.
ProcessExitCode(outcome, handled) ==
    IF outcome.state = "rejected" /\ ~handled THEN 1 ELSE 0

\* ------------------------------------------------------------------ Init
InitRun ==
    /\ pageSize \in 1..MaxPageSize
    /\ pc = "create"
    /\ accounts = <<>>
    /\ newAccounts = <<>>
    /\ next = NoKey
    /\ idx = 1
    /\ runningTotal = 0
    /\ runningLockedUp = 0
    /\ runningReserved = 0
    /\ count = 0
    /\ result = <<>>
    /\ fOutcome = Pending
    /\ apiOutcome = Pending
    /\ exitCode = <<>>
    /\ trace = <<>>

Init ==
    /\ accountTable \in AccountTables
    /\ ledgerTable \in SampleLedgerTables
    /\ InitRun

InitSample ==
    /\ accountTable \in SampleAccountTables
    /\ ledgerTable \in SampleLedgerTables
    /\ InitRun

InitLedger ==
    /\ accountTable \in SampleAccountTables
    /\ ledgerTable \in LedgerTables
    /\ InitRun

\* --------------------------------------------------------------- actions
\* main(api) rejects with e: control leaves the try block for finally.
FReject(e) ==
    /\ fOutcome' = Rejected(e)
    /\ trace' = trace \o << Event("fail", <<>>, e), Event("fSettled", <<>>, e) >>
    /\ pc' = "finally"

\* withApi: await ApiPromise.create(...) resolves.
ApiCreate ==
    /\ pc = "create"
    /\ pc' = "latestBlock"
    /\ trace' = Append(trace, Event("create", <<>>, ""))
    /\ UNCHANGED << inputs, locals, fOutcome, apiOutcome, exitCode >>

\* withApi: await ApiPromise.create(...) rejects, before the try block.
ApiCreateFail ==
    /\ pc = "create"
    /\ apiOutcome' = Rejected("ConnectionError")
    /\ trace' = trace \o << Event("fail", <<>>, "ConnectionError"),
                            Event("apiSettled", <<>>, "ConnectionError") >>
    /\ pc' = "settled"
    /\ UNCHANGED << inputs, locals, fOutcome, exitCode >>

\* main: await getSubscanLatestBlock() resolves.
GetSubscanLatestBlock ==
    /\ pc = "latestBlock"
    /\ pc' = "at"
    /\ UNCHANGED << inputs, locals, fOutcome, apiOutcome, exitCode, trace >>

\* main: getSubscanLatestBlock() rejects (fetch, or BlockListResponse.parse).
GetSubscanLatestBlockFail ==
    /\ pc = "latestBlock"
    /\ \E e \in {"TransientIOError", "SchemaValidationError"} : FReject(e)
    /\ UNCHANGED << inputs, locals, apiOutcome, exitCode >>

\* main: await apii.at(blockHash) resolves.
ApiAt ==
    /\ pc = "at"
    /\ pc' = "token"
    /\ UNCHANGED << inputs, locals, fOutcome, apiOutcome, exitCode, trace >>

\* main: apii.at(blockHash) rejects.
ApiAtFail ==
    /\ pc = "at"
    /\ FReject("UnknownBlock")
    /\ UNCHANGED << inputs, locals, apiOutcome, exitCode >>

\* main: await getSubscanToken() resolves; calculateTokenInfo is entered.
GetSubscanToken ==
    /\ pc = "token"
    /\ pc' = "callFetch"
    /\ UNCHANGED << inputs, locals, fOutcome, apiOutcome, exitCode, trace >>

\* main: getSubscanToken() rejects (fetch, or TokenInfo.parse).
GetSubscanTokenFail ==
    /\ pc = "token"
    /\ \E e \in {"TransientIOError", "SchemaValidationError"} : FReject(e)
    /\ UNCHANGED << inputs, locals, apiOutcome, exitCode >>

\* fetchAccounts(api, next) is called: the page request goes out.
FetchAccountsCall ==
    /\ pc = "callFetch"
    /\ pc' = "awaitFetch"
    /\ trace' = Append(trace, Event("pageReq", next, ""))
    /\ UNCHANGED << inputs, locals, fOutcome, apiOutcome, exitCode >>

\* The page arrives: accounts = await fetchAccounts(...); count +=
\* newAccounts.length (nothing to add after the fetch before the loop, where
\* newAccounts is still empty).
FetchAccountsReturn ==
    /\ pc = "awaitFetch"
    /\ LET page == EntriesPaged(accountTable, pageSize, next)
       IN  /\ accounts' = page
           /\ trace' = Append(trace, Event("pageResp", KeysOf(page), ""))
    /\ count' = count + Len(newAccounts)
    /\ pc' = "loop"
    /\ UNCHANGED << inputs, newAccounts, next, idx, runningTotal,
                    runningLockedUp, runningReserved, result, fOutcome,
                    apiOutcome, exitCode >>

\* A rejected page request as a bug would have it: asked again.
FetchAccountsRetry ==
    /\ pc = "awaitFetch"
    /\ \E e \in {"TransientIOError", "SnapshotUnavailable"} :
           trace' = Append(trace, Event("fail", <<>>, e))
    /\ pc' = "callFetch"
    /\ UNCHANGED << inputs, locals, fOutcome, apiOutcome, exitCode >>

\* The page request rejects.
FetchAccountsFail ==
    /\ pc = "awaitFetch"
    /\ \E e \in {"TransientIOError", "SnapshotUnavailable"} : FReject(e)
    /\ UNCHANGED << inputs, locals, apiOutcome, exitCode >>

\* The loop test as a bug would have it: a page shorter than pageSize is
\* taken for the end of the table.
LoopHeadStopsOnShortPage ==
    /\ pc = "loop"
    /\ IF Len(accounts) = pageSize
       THEN /\ trace' = IF count % ProgressEvery = 0
                        THEN Append(trace, Event("logProgress", <<>>, ""))
                        ELSE trace
            /\ next' = LastKey(accounts)
            /\ newAccounts' = accounts
            /\ idx' = 1
            /\ pc' = "fold"
       ELSE /\ pc' = "callUnbonding"
            /\ UNCHANGED << trace, next, newAccounts, idx >>
    /\ UNCHANGED << inputs, accounts, runningTotal, runningLockedUp,
                    runningReserved, count, result, fOutcome, apiOutcome,
                    exitCode >>

\* The loop as a bug would have it: do { ... } while, the body running once
\* before the test.
LoopHeadDoWhile ==
    /\ pc = "loop"
    /\ IF Len(accounts) > 0 \/ count = 0
       THEN /\ trace' = IF count % ProgressEvery = 0
                        THEN Append(trace, Event("logProgress", <<>>, ""))
                        ELSE trace
            /\ next' = IF Len(accounts) > 0 THEN LastKey(accounts) ELSE NoKey
            /\ newAccounts' = accounts
            /\ idx' = 1
            /\ pc' = IF Len(accounts) > 0 THEN "fold" ELSE "callFetch"
       ELSE /\ pc' = "callUnbonding"
            /\ UNCHANGED << trace, next, newAccounts, idx >>
    /\ UNCHANGED << inputs, accounts, runningTotal, runningLockedUp,
                    runningReserved, count, result, fOutcome, apiOutcome,
                    exitCode >>

\* while (accounts.length > 0) { progress line; next = ...; newAccounts = ...
LoopHead ==
    /\ pc = "loop"
    /\ IF Len(accounts) > 0
       THEN /\ trace' = IF count % ProgressEvery = 0
                        THEN Append(trace, Event("logProgress", <<>>, ""))
                        ELSE trace
            /\ next' = LastKey(accounts)
            /\ newAccounts' = accounts
            /\ idx' = 1
            /\ pc' = "fold"
       ELSE /\ pc' = "callUnbonding"
            /\ UNCHANGED << trace, next, newAccounts, idx >>
    /\ UNCHANGED << inputs, accounts, runningTotal, runningLockedUp,
                    runningReserved, count, result, fOutcome, apiOutcome,
                    exitCode >>

\* One pass of the for-of body over newAccounts.
FoldEntry ==
    /\ pc = "fold"
    /\ idx <= Len(newAccounts)
    /\ LET d == newAccounts[idx].data
       IN  /\ runningTotal' = BigIntAdd(runningTotal, BigIntAdd(d.free, d.reserved))
           /\ runningLockedUp' =
                  BigIntAdd(runningLockedUp, max(d.miscFrozen, d.feeFrozen))
           /\ runningReserved' = BigIntAdd(runningReserved, d.reserved)
    /\ trace' = Append(trace, Event("fold", << newAccounts[idx].key >>, ""))
    /\ idx' = idx + 1
    /\ pc' = IF idx = Len(newAccounts) THEN "callFetch" ELSE "fold"
    /\ UNCHANGED << inputs, accounts, newAccounts, next, count, result,
                    fOutcome, apiOutcome, exitCode >>

\* unbonding(api) is called: the ledger scan goes out.
UnbondingCall ==
    /\ pc = "callUnbonding"
    /\ pc' = "awaitUnbonding"
    /\ trace' = Append(trace, Event("ledgerReq", <<>>, ""))
    /\ UNCHANGED << inputs, locals, fOutcome, apiOutcome, exitCode >>

\* The ledgers arrive and are reduced; calculateTokenInfo logs the count and
\* returns its record, unless unwrap() throws.
UnbondingReturn ==
    /\ pc = "awaitUnbonding"
    /\ IF UnwrapThrows(ledgerTable)
       THEN /\ fOutcome' = Rejected("UnwrapNone")
            /\ trace' = trace \o << Event("ledgerResp", <<>>, ""),
                                    Event("fail", <<>>, "UnwrapNone"),
                                    Event("fSettled", <<>>, "UnwrapNone") >>
            /\ pc' = "finally"
            /\ UNCHANGED result
       ELSE /\ result' = << [lockedUp |-> runningLockedUp,
                             total |-> runningTotal,
                             reserved |-> runningReserved,
                             unbonding |-> ReduceLedgers(0, ledgerTable)] >>
            /\ trace' = trace \o << Event("ledgerResp", <<>>, ""),
                                    Event("logCount", <<>>, "") >>
            /\ pc' = "print"
            /\ UNCHANGED fOutcome
    /\ UNCHANGED << inputs, accounts, newAccounts, next, idx, runningTotal,
                    runningLockedUp, runningReserved, count, apiOutcome,
                    exitCode >>

\* The ledger scan rejects.
UnbondingFail ==
    /\ pc = "awaitUnbonding"
    /\ \E e \in {"TransientIOError", "SnapshotUnavailable"} : FReject(e)
    /\ UNCHANGED << inputs, locals, apiOutcome, exitCode >>

\* main prints the Subscan figures, then the computed totals, and returns.
PrintSummary ==
    /\ pc = "print"
    /\ trace' = trace \o << Event("logSubscan", <<>>, ""),
                            Event("logTotals", <<>>, ""),
                            Event("fSettled", <<>>, "") >>
    /\ fOutcome' = Fulfilled
    /\ pc' = "finally"
    /\ UNCHANGED << inputs, locals, apiOutcome, exitCode >>

\* withApi as a bug would have it: api.disconnect() after the await inside
\* the try block, so a rejected f skips it.
DisconnectOnlyOnSuccess ==
    /\ pc = "finally"
    /\ trace' = IF fOutcome.state = "fulfilled"
                THEN trace \o << Event("disconnect", <<>>, ""),
                                 Event("apiSettled", <<>>, fOutcome.err) >>
                ELSE Append(trace, Event("apiSettled", <<>>, fOutcome.err))
    /\ apiOutcome' = fOutcome
    /\ pc' = "settled"
    /\ UNCHANGED << inputs, locals, fOutcome, exitCode >>

\* withApi: finally { api.disconnect() }, then withApi settles as f did.
Disconnect ==
    /\ pc = "finally"
    /\ trace' = trace \o << Event("disconnect", <<>>, ""),
                            Event("apiSettled", <<>>, fOutcome.err) >>
    /\ apiOutcome' = fOutcome
    /\ pc' = "settled"
    /\ UNCHANGED << inputs, locals, fOutcome, exitCode >>

\* .catch((e) => console.error(e))
CatchHandler ==
    /\ pc = "settled"
    /\ apiOutcome.state = "rejected"
    /\ trace' = Append(trace, Event("consoleError", <<>>, apiOutcome.err))
    /\ pc' = "caught"
    /\ UNCHANGED << inputs, locals, fOutcome, apiOutcome, exitCode >>

\* Nothing is left to run: the process exits.
Exit ==
    /\ \/ pc = "settled" /\ apiOutcome.state = "fulfilled"
       \/ pc = "caught"
    /\ exitCode' = << ProcessExitCode(apiOutcome, pc = "caught") >>
    /\ pc' = "exited"
    /\ UNCHANGED << inputs, locals, fOutcome, apiOutcome, trace >>

Next ==
    \/ ApiCreate
    \/ ApiCreateFail
    \/ GetSubscanLatestBlock
    \/ GetSubscanLatestBlockFail
    \/ ApiAt
    \/ ApiAtFail
    \/ GetSubscanToken
    \/ GetSubscanTokenFail
    \/ FetchAccountsCall
    \/ FetchAccountsReturn
    \/ FetchAccountsFail
    \/ LoopHead
    \/ FoldEntry
    \/ UnbondingCall
    \/ UnbondingReturn
    \/ UnbondingFail
    \/ PrintSummary
    \/ Disconnect
    \/ CatchHandler
    \/ Exit

\* The account walk over every account table, with a few ledger tables.
Spec == Init /\ [][Next]_vars

\* The ledger scan over every ledger table, with a few account tables.
SpecLedger == InitLedger /\ [][Next]_vars

\* Every await settles and the event loop keeps running what is ready.
SpecFair == InitSample /\ [][Next]_vars /\ WF_vars(Next)

\* ------------------------------------------------- reading the trace
HasEvent(ev) == \E i \in 1..Len(trace) : trace[i].ev = ev

Positions(ev) == { i \in 1..Len(trace) : trace[i].ev = ev }

EventsOf(kinds) == SelectSeq(trace, LAMBDA e : e.ev \in kinds)

\* The keys folded so far, in the order they were folded.
FoldedKeys ==
    LET f == EventsOf({"fold"}) IN [i \in 1..Len(f) |-> f[i].keys[1]]

\* The cursors of the page requests sent so far, in order.
PageRequests ==
    LET r == EventsOf({"pageReq"}) IN [i \in 1..Len(r) |-> r[i].keys]

\* The requests, responses and fold steps of calculateTokenInfo, in order.
WalkTrace == EventsOf({"pageReq", "pageResp", "fold", "ledgerReq"})

IsPrefix(s, t) == Len(s) <= Len(t) /\ s = SubSeq(t, 1, Len(s))

\* The while loop has been left by its test.
LoopEnded == pc = "callUnbonding" \/ HasEvent("ledgerReq")

Failed == HasEvent("fail")

\* The sums the entries of an account table add up to.
SumFreeReserved(t) ==
    LET S[n \in 0..Len(t)] ==
            IF n = 0 THEN 0 ELSE S[n - 1] + t[n].data.free + t[n].data.reserved
    IN  S[Len(t)]

SumReserved(t) ==
    LET S[n \in 0..Len(t)] ==
            IF n = 0 THEN 0 ELSE S[n - 1] + t[n].data.reserved
    IN  S[Len(t)]

SumLargerFrozen(t) ==
    LET S[n \in 0..Len(t)] ==
            IF n = 0 THEN 0
            ELSE S[n - 1] + (IF t[n].data.miscFrozen >= t[n].data.feeFrozen
                             THEN t[n].data.miscFrozen
                             ELSE t[n].data.feeFrozen)
    IN  S[Len(t)]

\* The sum of every chunk of every present ledger of a table.
SumSeq(s) ==
    LET S[n \in 0..Len(s)] == IF n = 0 THEN 0 ELSE S[n - 1] + s[n]
    IN  S[Len(s)]

SumChunks(t) ==
    SumSeq([i \in 1..Len(t) |->
               IF t[i].isSome THEN SumSeq(t[i].unlocking) ELSE 0])

\* ------------------------------------------------------------- claims

\* C1: the walk folds every entry of the account table exactly once, in the
\* table's order: at any time the folded keys are a prefix of the table's
\* keys, and when the loop ends they are all of them and count is the
\* table's length.
C1_WalkComplete ==
    /\ IsPrefix(FoldedKeys, KeysOf(accountTable))
    /\ LoopEnded => /\ FoldedKeys = KeysOf(accountTable)
                    /\ count = Len(accountTable)

\* C1 witness: the loop ended on a table of several entries walked in
\* several pages.
C1_Witness ==
    /\ LoopEnded
    /\ Len(accountTable) >= 2
    /\ Len(PageRequests) >= 3
    /\ count = Len(accountTable)

\* C2: the record calculateTokenInfo returns holds the sum of free + reserved,
\* the sum of reserved and the sum of the larger frozen field of every entry.
C2_FoldCorrect ==
    \A i \in 1..Len(result) :
        /\ result[i].total = SumFreeReserved(accountTable)
        /\ result[i].reserved = SumReserved(accountTable)
        /\ result[i].lockedUp = SumLargerFrozen(accountTable)

\* C2 witness: a record was returned for a table with an entry whose two
\* frozen fields are both positive, so the larger differs from the sum.
C2_Witness ==
    /\ result # <<>>
    /\ \E i \in 1..Len(accountTable) :
           /\ accountTable[i].data.miscFrozen > 0
           /\ accountTable[i].data.feeFrozen > 0
    /\ \E i \in 1..Len(accountTable) :
           accountTable[i].data.miscFrozen # accountTable[i].data.feeFrozen
    /\ result[1].lockedUp > 0

\* C3 (as claimed): once the ledgers have been read, unbonding never fails
\* and its value is the sum of the chunks of the present entries, absent
\* entries counting zero.
C3_AbsentLedgerCountsZero ==
    HasEvent("ledgerResp") =>
        /\ ~Failed
        /\ result # <<>>
        /\ result[1].unbonding = SumChunks(ledgerTable)

\* C4: the unbonding field of the returned record is the sum of every chunk
\* of every ledger of the table.
C4_UnbondingSum ==
    \A i \in 1..Len(result) : result[i].unbonding = SumChunks(ledgerTable)

\* C4 witness: a record was returned for a table holding a ledger of several
\* chunks and a ledger of none, with a positive sum.
C4_Witness ==
    /\ result # <<>>
    /\ \E i \in 1..Len(ledgerTable) : Len(ledgerTable[i].unlocking) >= 2
    /\ \E i \in 1..Len(ledgerTable) : ledgerTable[i].unlocking = <<>>
    /\ result[1].unbonding > MaxBalance

\* C5 (as claimed): the process exits with status zero only when the summary
\* was printed, and a failed run logs its error and exits non-zero.
C5_NonZeroExitOnFailure ==
    pc = "exited" =>
        /\ exitCode = << 0 >> => HasEvent("logTotals")
        /\ Failed => HasEvent("consoleError") /\ exitCode # << 0 >>

\* C6: after a failure no page or ledger request goes out, no response is
\* awaited, nothing is folded and no summary line is printed; a failed run
\* has no result record from a failed calculateTokenInfo, and a run that
\* printed the summary had no failure.
C6_AbortOnFirstFailure ==
    /\ \A i \in Positions("fail") : \A j \in (i + 1)..Len(trace) :
           trace[j].ev \in {"fSettled", "disconnect", "apiSettled",
                            "consoleError"}
    /\ Cardinality(Positions("fail")) <= 1
    /\ Failed => result = <<>>
    /\ Failed => ~HasEvent("logSubscan") /\ ~HasEvent("logTotals")
    /\ HasEvent("logTotals") => HasEvent("logSubscan") /\ result # <<>>

\* C6 witness: a page request failed after an earlier page was folded, and
\* the process has exited.
C6_Witness ==
    /\ pc = "exited"
    /\ Failed
    /\ HasEvent("fold")
    /\ ~HasEvent("ledgerReq")
    /\ ~HasEvent("logTotals")

C8_EmptyTable ==
    /\ [](accountTable = <<>> =>
            /\ IsPrefix(PageRequests, << NoKey >>)
            /\ ~HasEvent("fold")
            /\ runningTotal = 0 /\ runningLockedUp = 0 /\ runningReserved = 0
            /\ \A i \in 1..Len(result) :
                   /\ PageRequests = << NoKey >>
                   /\ result[i].total = 0
                   /\ result[i].lockedUp = 0
                   /\ result[i].reserved = 0)
    /\ (accountTable = <<>> /\ pc = "callFetch")
           ~> (result # <<>> \/ fOutcome.state = "rejected")

\* C8 witness: a record was returned for an empty account table.
C8_Witness ==
    /\ accountTable = <<>>
    /\ result # <<>>
    /\ PageRequests = << NoKey >>

\* C9: the first page request has no cursor; every later one follows a
\* non-empty page whose entries were all folded since, and carries that
\* page's last key; every response answers the request just before it; the
\* ledger scan goes out right after an empty page and only then.
C9_CursorProtocol ==
    LET w == WalkTrace
    IN  \A i \in 1..Len(w) :
            /\ i = 1 => w[i].ev = "pageReq" /\ w[i].keys = NoKey
            /\ (w[i].ev = "pageReq" /\ i > 1) =>
                   \E r \in 1..(i - 1) :
                       /\ w[r].ev = "pageResp"
                       /\ w[r].keys # <<>>
                       /\ i = r + Len(w[r].keys) + 1
                       /\ \A j \in 1..Len(w[r].keys) :
                              /\ w[r + j].ev = "fold"
                              /\ w[r + j].keys = << w[r].keys[j] >>
                       /\ w[i].keys = << w[r].keys[Len(w[r].keys)] >>
            /\ w[i].ev = "pageResp" => i > 1 /\ w[i - 1].ev = "pageReq"
            /\ w[i].ev = "ledgerReq" =>
                   i > 1 /\ w[i - 1].ev = "pageResp" /\ w[i - 1].keys = <<>>
            /\ (w[i].ev = "pageResp" /\ i < Len(w)) =>
                   w[i + 1].ev = IF w[i].keys = <<>> THEN "ledgerReq" ELSE "fold"
            /\ (w[i].ev = "ledgerReq") => i = Len(w)

\* C9 witness: a non-empty page shorter than the page size was received, the
\* walk went on to ask for the next page, and the ledger scan went out.
C9_Witness ==
    /\ HasEvent("ledgerReq")
    /\ \E i \in Positions("pageResp") :
           /\ trace[i].keys # <<>>
           /\ Len(trace[i].keys) < pageSize
           /\ \E j \in Positions("pageReq") : j > i

\* C10: once withApi has settled with the connection created, disconnect was
\* invoked exactly once, right after f settled and right before withApi
\* settled, and withApi settled as f did; it is never invoked while f is
\* pending, nor when the connection was not created.
C10_DisconnectOnce ==
    /\ (HasEvent("create") /\ apiOutcome.state # "pending") =>
           /\ Cardinality(Positions("disconnect")) = 1
           /\ \A d \in Positions("disconnect") :
                  /\ d > 1 /\ trace[d - 1].ev = "fSettled"
                  /\ d < Len(trace) /\ trace[d + 1].ev = "apiSettled"
           /\ apiOutcome = fOutcome
           /\ fOutcome.state # "pending"
    /\ fOutcome.state = "pending" => ~HasEvent("disconnect")
    /\ ~HasEvent("create") => ~HasEvent("disconnect")

\* C10 witness: f failed after the connection was created, disconnect was
\* invoked and the process has exited.
C10_Witness ==
    /\ pc = "exited"
    /\ HasEvent("create")
    /\ fOutcome.state = "rejected"
    /\ apiOutcome = fOutcome
    /\ Cardinality(Positions("disconnect")) = 1

====
